---- MODULE Spec2Model ----
(***************************************************************************)
(* Model of scripts/download_sheet_and_build.py: the pipeline              *)
(*   grid -> fetch_sheet_values -> compute_numeric_fields                  *)
(*        -> build_dashboard_json                                          *)
(*                                                                         *)
(* Representation.                                                         *)
(*  - A Python str is a sequence of one-character strings, so that         *)
(*    replace / strip / float can be computed character by character.      *)
(*  - A Python value is a record [kind, s, n]: kind "str" carries the text *)
(*    s, kind "num" carries a float n, kind "none" is None.                *)
(*  - A float is held exactly, as an integer count of 10^-GradeDigits      *)
(*    (thousandths).  The cells of the model have at most GradeDigits      *)
(*    fractional digits and no exponent, "inf" or "nan" forms; binary      *)
(*    floating-point error is not modelled.                                *)
(*  - A dict is a function from its keys to values.  The keys are the     *)
(*    header's cells, which the program only compares with field names:    *)
(*    they are TLA+ strings.  A list of dicts is a sequence; a list that holds references *)
(*    to the dicts of `rows` holds their indices in `rows`.                *)
(***************************************************************************)
EXTENDS Integers, Sequences, FiniteSets

VARIABLES pc, values, rows, prev, dashboard, applied

vars == <<pc, values, rows, prev, dashboard, applied>>

-----------------------------------------------------------------------------
(* Bounds of the model *)

MaxRows == 2

MaxExtra == 1

MaxApply == 2

-----------------------------------------------------------------------------
(* Values *)

None == [kind |-> "none", s |-> <<>>, n |-> 0]

Str(t) == [kind |-> "str", s |-> t, n |-> 0]

Num(x) == [kind |-> "num", s |-> <<>>, n |-> x]

GradeDigits == 3

MoneyDigits == 2

RECURSIVE Pow10(_)
Pow10(k) == IF k <= 0 THEN 1 ELSE 10 * Pow10(k - 1)

\* One unit (1.0) in the fixed-point representation of a float.
Unit == Pow10(GradeDigits)

Min(a, b) == IF a <= b THEN a ELSE b

Range(f) == {f[i] : i \in DOMAIN f}

-----------------------------------------------------------------------------
(* str(x).replace(",", "").strip() and float() *)

Digits == <<"0", "1", "2", "3", "4", "5", "6", "7", "8", "9">>

IsDigit(c) == \E d \in 1..10 : Digits[d] = c

DigitVal(c) == (CHOOSE d \in 1..10 : Digits[d] = c) - 1

IsSpace(c) == c = " "

\* str(x): the text of a str, "None" for None.  The text of a float is not
\* modelled: no source field of the model holds a float.
str(x) ==
  CASE x.kind = "str" -> x.s
    [] x.kind = "none" -> <<"N", "o", "n", "e">>

IsNotComma(c) == c # ","

\* s.replace(",", "")
replace_commas(t) == SelectSeq(t, IsNotComma)

RECURSIVE lstrip(_)
lstrip(t) == IF t # <<>> /\ IsSpace(Head(t)) THEN lstrip(Tail(t)) ELSE t

RECURSIVE rstrip(_)
rstrip(t) ==
  IF t # <<>> /\ IsSpace(t[Len(t)]) THEN rstrip(SubSeq(t, 1, Len(t) - 1)) ELSE t

\* s.strip()
strip(t) == rstrip(lstrip(t))

RECURSIVE DigitsVal(_)
DigitsVal(t) ==
  IF t = <<>> THEN 0 ELSE 10 * DigitsVal(SubSeq(t, 1, Len(t) - 1)) + DigitVal(t[Len(t)])

AllDigits(t) == \A i \in 1..Len(t) : IsDigit(t[i])

\* The position of the first "." of t, or Len(t) + 1.
DotPos(t) ==
  IF \E i \in 1..Len(t) : t[i] = "."
  THEN CHOOSE i \in 1..Len(t) : t[i] = "." /\ \A j \in 1..(i - 1) : t[j] # "."
  ELSE Len(t) + 1

\* The decimal with integer digits ip and fraction digits fp: ValueError
\* unless both are digits and one is not empty.  The value is exact up to
\* GradeDigits fraction digits; no other case is modelled.
parse_parts(ip, fp) ==
  IF AllDigits(ip) /\ AllDigits(fp) /\ Len(ip) + Len(fp) > 0
  THEN [exc |-> FALSE,
        val |-> CASE Len(fp) <= GradeDigits ->
                  DigitsVal(ip) * Unit + DigitsVal(fp) * Pow10(GradeDigits - Len(fp))]
  ELSE [exc |-> TRUE, val |-> 0]

\* An unsigned decimal: digits with at most one "."
parse_decimal(body) ==
  parse_parts(SubSeq(body, 1, DotPos(body) - 1), SubSeq(body, DotPos(body) + 1, Len(body)))

negate(r) == [exc |-> r.exc, val |-> 0 - r.val]

\* An optional sign, then an unsigned decimal
parse_signed(u) ==
  IF u # <<>> /\ Head(u) = "-" THEN negate(parse_decimal(Tail(u)))
  ELSE IF u # <<>> /\ Head(u) = "+" THEN parse_decimal(Tail(u))
  ELSE parse_decimal(u)

\* float(t): [exc |-> TRUE] for ValueError, else the value.  Grammar: optional
\* surrounding whitespace, optional sign, digits with at most one "." and at
\* least one digit.
float(t) == parse_signed(strip(t))


\* Variant: no try/except around float(), the exception leaves to_float
except_none(r) == r

\* except Exception: return 0.0
except_zero(r) == IF r.exc THEN [exc |-> FALSE, val |-> 0] ELSE r

\* to_float: try float(str(x).replace(",", "").strip()) except Exception: 0.0
to_float(x) == except_zero(float(strip(replace_commas(str(x)))))

-----------------------------------------------------------------------------
(* dict and list primitives *)

\* d.get(k, default)
Get(d, k, default) == IF k \in DOMAIN d THEN d[k] ELSE default

\* d[k] = v
SetItem(d, k, v) == [x \in (DOMAIN d) \cup {k} |-> IF x = k THEN v ELSE d[x]]

\* [x] * n: the empty list when n <= 0
Repeat(x, n) == IF n <= 0 THEN <<>> ELSE [i \in 1..n |-> x]

\* zip(a, b): pairs up to the shorter length
zip(a, b) == [i \in 1..Min(Len(a), Len(b)) |-> <<a[i], b[i]>>]

\* dict(pairs): pairs are inserted left to right, a later pair overwrites
\* an earlier one with the same key
RECURSIVE dict(_)
dict(pairs) ==
  IF pairs = <<>> THEN <<>>
  ELSE LET last == pairs[Len(pairs)]
       IN SetItem(dict(SubSeq(pairs, 1, Len(pairs) - 1)), last[1], last[2])

-----------------------------------------------------------------------------
(* fetch_sheet_values, from `values` on *)


\* Variant: the row is not padded
row_unpadded(header, row) == row

\* Variant: a row longer than the header keeps its last len(header) cells
row_tail(header, row) ==
  IF Len(row) > Len(header) THEN SubSeq(row, Len(row) - Len(header) + 1, Len(row))
  ELSE row \o [i \in 1..(Len(header) - Len(row)) |-> Str(<<>>)]

\* row + [""] * (len(header) - len(row))
row_padded(header, row) == row \o Repeat(Str(<<>>), Len(header) - Len(row))

\* dict(zip(header, row_padded))
row_dict(header, row) == dict(zip(header, row_padded(header, row)))

fetch_sheet_values(vals) ==
  IF vals = <<>> THEN <<>>
  ELSE LET header == vals[1]
       IN [i \in 1..(Len(vals) - 1) |-> row_dict(header, vals[i + 1])]

-----------------------------------------------------------------------------
(* Float arithmetic, exact: an unrounded float is a fraction <<p, q>>, q > 0 *)

F(v) == <<v, Unit>>

Mul(a, b) == <<a[1] * b[1], a[2] * b[2]>>

Add(a, b) == IF a[2] = b[2] THEN <<a[1] + b[1], a[2]>>
             ELSE <<a[1] * b[2] + b[1] * a[2], a[2] * b[2]>>

Sub(a, b) == IF a[2] % b[2] = 0 THEN <<a[1] - b[1] * (a[2] \div b[2]), a[2]>>
             ELSE <<a[1] * b[2] - b[1] * a[2], a[2] * b[2]>>

\* a / b for b > 0
Div(a, b) == <<a[1] * b[2], a[2] * b[1]>>

\* The integer nearest to p / q (q > 0), a tie going to the even one.
RoundHalfEven(p, q) ==
  LET lo == p \div q
      r == p - lo * q
  IN IF 2 * r < q THEN lo
     ELSE IF 2 * r > q THEN lo + 1
     ELSE IF lo % 2 = 0 THEN lo ELSE lo + 1

\* round(x, ndigits), ndigits <= GradeDigits: the result in thousandths
round(x, ndigits) ==
  LET k == Pow10(ndigits)
      m == IF x[2] % k = 0 THEN RoundHalfEven(x[1], x[2] \div k)
           ELSE RoundHalfEven(x[1] * k, x[2])
  IN m * Pow10(GradeDigits - ndigits)

-----------------------------------------------------------------------------
(* compute_numeric_fields *)

DerivedKeys == {"avg_grade_g_per_m3", "revenue_usd", "total_cost_usd", "profit_usd"}

SourceKeys == {"material_moved_m3", "gold_grams", "gold_price_usd_per_g",
               "diesel_cost_usd", "labour_cost_usd", "other_cost_usd"}


\* Variant: profit from the rounded revenue and the rounded total cost
profit_of_rounded(revenue, total_cost) ==
  round(revenue, MoneyDigits) - round(total_cost, MoneyDigits)

\* profit = revenue - total_cost
profit_of(revenue, total_cost) == round(Sub(revenue, total_cost), MoneyDigits)

\* avg_grade = g / m3 if m3 > 0 else 0.0
avg_grade_of(g, m3) == IF m3[1] > 0 THEN Div(g, m3) ELSE F(0)


\* Variant: profit_usd adds to the profit_usd a row already carries as a number
store_accum(row, avg_grade, revenue, total_cost) ==
  SetItem(SetItem(SetItem(SetItem(row,
    "avg_grade_g_per_m3", Num(round(avg_grade, GradeDigits))),
    "revenue_usd", Num(round(revenue, MoneyDigits))),
    "total_cost_usd", Num(round(total_cost, MoneyDigits))),
    "profit_usd", Num(Get(row, "profit_usd", Num(0)).n + profit_of(revenue, total_cost)))

\* row["avg_grade_g_per_m3"] = round(avg_grade, 3) ... row["profit_usd"] = ...
store(row, avg_grade, revenue, total_cost) ==
  SetItem(SetItem(SetItem(SetItem(row,
    "avg_grade_g_per_m3", Num(round(avg_grade, GradeDigits))),
    "revenue_usd", Num(round(revenue, MoneyDigits))),
    "total_cost_usd", Num(round(total_cost, MoneyDigits))),
    "profit_usd", Num(profit_of(revenue, total_cost)))


\* Variant: the coerced gold_grams is written back over the source cell
derive_coerce(row, m3, g, gold_price, diesel_cost, labour_cost, other_cost) ==
  [exc |-> \/ m3.exc \/ g.exc \/ gold_price.exc
           \/ diesel_cost.exc \/ labour_cost.exc \/ other_cost.exc,
   row |-> store(SetItem(row, "gold_grams", Num(g.val)),
                 avg_grade_of(F(g.val), F(m3.val)),
                 Mul(F(g.val), F(gold_price.val)),
                 Add(Add(F(diesel_cost.val), F(labour_cost.val)), F(other_cost.val)))]

\* The derived values of a row, from its six coerced source values
derive(row, m3, g, gold_price, diesel_cost, labour_cost, other_cost) ==
  [exc |-> \/ m3.exc \/ g.exc \/ gold_price.exc
           \/ diesel_cost.exc \/ labour_cost.exc \/ other_cost.exc,
   row |-> store(row,
                 avg_grade_of(F(g.val), F(m3.val)),
                 Mul(F(g.val), F(gold_price.val)),
                 Add(Add(F(diesel_cost.val), F(labour_cost.val)), F(other_cost.val)))]

\* The body of the loop: [exc |-> an exception left to_float, row |-> the row after]
compute_row(row) ==
  derive(row,
         to_float(Get(row, "material_moved_m3", None)),
         to_float(Get(row, "gold_grams", None)),
         to_float(Get(row, "gold_price_usd_per_g", None)),
         to_float(Get(row, "diesel_cost_usd", None)),
         to_float(Get(row, "labour_cost_usd", None)),
         to_float(Get(row, "other_cost_usd", None)))

loop_result(res) ==
  [exc |-> \E i \in 1..Len(res) : res[i].exc,
   rows |-> [i \in 1..Len(res) |-> res[i].row]]

\* for row in rows: ...; return rows.  An exception ends the call.
compute_numeric_fields(rs) == loop_result([i \in 1..Len(rs) |-> compute_row(rs[i])])

-----------------------------------------------------------------------------
(* build_dashboard_json *)

UNKNOWN == Str(<<"U", "N", "K", "N", "O", "W", "N">>)


\* Variant: r.get("line_id") or "UNKNOWN", an empty line_id becomes the sentinel
lid_of_or(r) ==
  IF "line_id" \in DOMAIN r /\ r["line_id"] # Str(<<>>) THEN r["line_id"] ELSE UNKNOWN

\* r.get("line_id", "UNKNOWN")
lid_of(r) == Get(r, "line_id", UNKNOWN)


\* Variant: the membership test is lost, every record opens a group
Has_never(by_line, lid) == FALSE

\* lid in by_line; by_line keeps its keys in insertion order
Has(by_line, lid) == \E j \in 1..Len(by_line) : by_line[j].line_id = lid

\* by_line[lid] = {"line_id": lid, "line_name": ..., "location": ..., "records": []}
new_group(by_line, lid, r) ==
  Append(by_line, [line_id |-> lid,
                   line_name |-> Get(r, "line_name", Str(<<>>)),
                   location |-> Get(r, "location", Str(<<>>)),
                   records |-> <<>>])

\* by_line[lid]["records"].append(r): r is the dict rows[i], held by reference
append_record(by_line, lid, i) ==
  [j \in 1..Len(by_line) |->
     IF by_line[j].line_id = lid
     THEN [by_line[j] EXCEPT !.records = Append(@, i)]
     ELSE by_line[j]]


\* Variant: the append is in the branch of a new group only
group_step_drop(by_line, rs, i) ==
  IF ~Has(by_line, lid_of(rs[i]))
  THEN append_record(new_group(by_line, lid_of(rs[i]), rs[i]), lid_of(rs[i]), i)
  ELSE by_line

\* Variant: every record of a group overwrites the group's line_name and location
group_step_override(by_line, rs, i) ==
  IF ~Has(by_line, lid_of(rs[i]))
  THEN append_record(new_group(by_line, lid_of(rs[i]), rs[i]), lid_of(rs[i]), i)
  ELSE [j \in 1..Len(by_line) |->
          IF by_line[j].line_id = lid_of(rs[i])
          THEN [by_line[j] EXCEPT !.records = Append(@, i),
                                  !.line_name = Get(rs[i], "line_name", Str(<<>>)),
                                  !.location = Get(rs[i], "location", Str(<<>>))]
          ELSE by_line[j]]

\* One iteration of the loop, for r = rows[i]
group_step(by_line, rs, i) ==
  LET lid == lid_of(rs[i])
      b == IF ~Has(by_line, lid) THEN new_group(by_line, lid, rs[i]) ELSE by_line
  IN append_record(b, lid, i)

\* by_line after the first n iterations
RECURSIVE group_loop(_, _)
group_loop(rs, n) ==
  IF n = 0 THEN <<>> ELSE group_step(group_loop(rs, n - 1), rs, n)

build_dashboard_json(rs) == [lines |-> group_loop(rs, Len(rs))]

-----------------------------------------------------------------------------
(* Inputs: the sheets the model draws from *)

Txt_L1 == <<"L", "1">>

Txt_L2 == <<"L", "2">>

Txt_LineOne == <<"L", "i", "n", "e", " ", "O", "n", "e">>

Txt_LineTwo == <<"L", "i", "n", "e", " ", "T", "w", "o">>

Txt_PitA == <<"P", "i", "t", " ", "A">>

Txt_PitB == <<"P", "i", "t", " ", "B">>

\* The header of the reference sheet
FullHeader ==
  <<"line_id", "line_name", "location", "material_moved_m3", "gold_grams",
    "gold_price_usd_per_g", "diesel_cost_usd", "labour_cost_usd", "other_cost_usd">>

Txt_100 == <<"1", "0", "0">>

\* The sheets: a header and, per column, the texts a cell of the column takes.
\* The reference sheet, sheets without line_id, one with a repeated field
\* name, one with a column named like a derived field, an empty first row.
Sheets ==
  { [header |-> FullHeader,
     cells |-> <<{Str(Txt_L1)}, {Str(Txt_LineOne)}, {Str(Txt_PitA)},
                 {Str(Txt_100)}, {Str(<<"5">>)}, {Str(<<"6", "0">>)},
                 {Str(<<"5", "0">>)}, {Str(<<"3", "0">>)}, {Str(<<"2", "0">>)}>>],
    [header |-> <<"line_id", "line_name">>,
     cells |-> <<{Str(<<>>), Str(Txt_L1), UNKNOWN}, {Str(Txt_LineOne)}>>],
    [header |-> <<"location", "line_id">>,
     cells |-> <<{Str(Txt_PitA), Str(Txt_PitB)}, {Str(<<>>), Str(Txt_L1)}>>],
    [header |-> <<"line_name", "gold_grams">>,
     cells |-> <<{Str(Txt_LineOne)}, {Str(<<"5">>), Str(<<"x">>)}>>],
    [header |-> <<"line_name", "line_name">>,
     cells |-> <<{Str(Txt_LineOne), Str(Txt_LineTwo)}, {Str(Txt_LineOne), Str(Txt_LineTwo)}>>],
    [header |-> <<"gold_grams", "gold_price_usd_per_g", "profit_usd">>,
     cells |-> <<{Str(<<"5">>)}, {Str(<<"6", "0">>)}, {Str(<<"9">>)}>>],
    [header |-> <<>>, cells |-> <<>>] }

\* The text of a cell beyond the header's length
ExtraCell == Str(<<"X">>)

CellAt(sheet, i) == IF i <= Len(sheet.header) THEN sheet.cells[i] ELSE {ExtraCell}

RECURSIVE RowsOfLen(_, _)
RowsOfLen(sheet, n) ==
  IF n = 0 THEN {<<>>}
  ELSE {Append(r, c) : r \in RowsOfLen(sheet, n - 1), c \in CellAt(sheet, n)}

\* A data row is shorter than, as long as, or longer than the header
RowsFor(sheet) ==
  UNION {RowsOfLen(sheet, n) : n \in 0..(Len(sheet.header) + MaxExtra)}

RECURSIVE RowSeqs(_, _)
RowSeqs(S, n) ==
  IF n = 0 THEN {<<>>}
  ELSE RowSeqs(S, n - 1) \cup {Append(q, r) : q \in {x \in RowSeqs(S, n - 1) : Len(x) = n - 1}, r \in S}

\* result.get("values", []): no row at all, or a header and up to MaxRows data rows
Grids ==
  {<<>>} \cup UNION {{<<sh.header>> \o q : q \in RowSeqs(RowsFor(sh), MaxRows)} : sh \in Sheets}

NoDashboard == [lines |-> <<>>]

-----------------------------------------------------------------------------
(* main(): fetch, compute, build *)

Init ==
  /\ pc = "start"
  /\ values \in Grids
  /\ rows = <<>>
  /\ prev = <<>>
  /\ dashboard = NoDashboard
  /\ applied = 0

\* rows = fetch_sheet_values(sheet_id, "Lines!A1:Z999")
FetchSheetValues ==
  /\ pc = "start"
  /\ rows' = fetch_sheet_values(values)
  /\ prev' = rows
  /\ pc' = "fetched"
  /\ UNCHANGED <<values, dashboard, applied>>

\* A call of compute_numeric_fields(rows) made at `from`, returning at `to`
Returned(r, to) ==
  IF r.exc
  THEN /\ pc' = "error"
       /\ UNCHANGED <<rows, prev, applied>>
  ELSE /\ pc' = to
       /\ rows' = r.rows
       /\ prev' = rows
       /\ applied' = applied + 1

CallCompute(from, to) ==
  /\ pc \in from
  /\ Returned(compute_numeric_fields(rows), to)
  /\ UNCHANGED <<values, dashboard>>

\* A call of build_dashboard_json(rows) made at `from`, returning at `to`
CallBuild(from, to) ==
  /\ pc \in from
  /\ dashboard' = build_dashboard_json(rows)
  /\ prev' = rows
  /\ pc' = to
  /\ UNCHANGED <<values, rows, applied>>

\* rows = compute_numeric_fields(rows)
ComputeNumericFields == CallCompute({"fetched"}, "computed")

\* dashboard = build_dashboard_json(rows)
BuildDashboardJson == CallBuild({"computed"}, "built")

Next == FetchSheetValues \/ ComputeNumericFields \/ BuildDashboardJson

Spec == Init /\ [][Next]_vars

-----------------------------------------------------------------------------
(* Calls of compute_numeric_fields and build_dashboard_json on given rows *)

\* Rows as a caller may pass them: dicts made from rows of several sheets, so
\* that the rows of one list need not have the same keys.
Samples ==
  { row_dict(FullHeader,
      <<Str(Txt_L1), Str(Txt_LineOne), Str(Txt_PitA), Str(Txt_100), Str(<<"5">>),
        Str(<<"6", "0">>), Str(<<"5", "0">>), Str(<<"3", "0">>), Str(<<"2", "0">>)>>),
    row_dict(FullHeader,
      <<Str(Txt_L1), Str(Txt_LineTwo), Str(Txt_PitB), Str(<<"0">>), Str(<<"5">>),
        Str(<<"6", "0">>), Str(<<"5", "0">>), Str(<<"3", "0">>), Str(<<"2", "0">>)>>),
    row_dict(FullHeader,
      <<Str(<<>>), Str(Txt_LineOne), Str(Txt_PitA), Str(<<"-", "2">>), Str(<<"5">>),
        Str(<<"6", "0">>), Str(<<"5", "0">>), Str(<<"3", "0">>), Str(<<"2", "0">>)>>),
    row_dict(FullHeader,
      <<Str(Txt_L2), Str(Txt_LineTwo), Str(Txt_PitB), Str(<<"3">>), Str(<<"0", ".", "1">>),
        Str(<<"0", ".", "0", "6">>), Str(<<"0", ".", "0", "0", "4">>), Str(<<"0">>), Str(<<>>)>>),
    row_dict(FullHeader,
      <<Str(Txt_L2), Str(Txt_LineTwo), Str(Txt_PitA), Str(<<"1", "6">>), Str(<<"1">>),
        Str(<<"6", "0">>), Str(<<"1", ",", "2", "3", "4", ".", "5">>), Str(<<" ", "7", " ">>),
        Str(<<"-", "3">>)>>),
    row_dict(FullHeader, <<Str(Txt_L2)>>),
    row_dict(<<"line_name", "gold_grams">>, <<Str(Txt_LineOne), Str(<<"5">>)>>),
    row_dict(<<"line_id", "location">>, <<UNKNOWN, Str(Txt_PitB)>>),
    row_dict(<<"line_id">>, <<>>),
    row_dict(<<>>, <<>>),
    row_dict(<<"line_id", "gold_grams", "gold_price_usd_per_g", "profit_usd">>,
      <<Str(Txt_L1), Str(<<"2">>), Str(<<"1", ".", "5">>), Str(<<"9">>)>>),
    row_dict(<<"line_id", "gold_grams", "material_moved_m3">>,
      <<Str(Txt_L1), Str(<<"x">>), Str(<<"4">>)>>),
    row_dict(<<"line_id", "material_moved_m3">>, <<Str(Txt_L1), Str(<<"4">>)>>) }

InitFn ==
  /\ pc = "input"
  /\ values = <<>>
  /\ rows \in RowSeqs(Samples, MaxRows)
  /\ prev = <<>>
  /\ dashboard = NoDashboard
  /\ applied = 0

\* compute_numeric_fields(rows), on new rows or on its own result
FnCompute ==
  /\ applied < MaxApply
  /\ CallCompute({"input", "enriched"}, "enriched")

\* build_dashboard_json(rows), on rows enriched or not
FnBuild == CallBuild({"input", "enriched"}, "grouped")

NextFn == FnCompute \/ FnBuild

SpecFn == InitFn /\ [][NextFn]_vars

-----------------------------------------------------------------------------
(* Properties *)

Lines == dashboard.lines

RECURSIVE SumRecords(_)
SumRecords(L) == IF L = <<>> THEN 0 ELSE Len(Head(L).records) + SumRecords(Tail(L))

\* The places <<group, position>> of `lines` that hold row i
PlacesOf(i) ==
  {<<j, k>> \in (1..Len(Lines)) \X (1..Len(rows)) :
     k <= Len(Lines[j].records) /\ Lines[j].records[k] = i}

Abs(x) == IF x < 0 THEN 0 - x ELSE x

\* C1: after build_dashboard_json, the lengths of the groups' records add up to
\* the number of input rows, and every input row is held at exactly one place
\* of exactly one group.
C1_GroupingPartitions ==
  pc = "grouped" =>
    /\ SumRecords(Lines) = Len(rows)
    /\ \A i \in 1..Len(rows) : Cardinality(PlacesOf(i)) = 1
    /\ \A j \in 1..Len(Lines) : \A k \in 1..Len(Lines[j].records) :
         Lines[j].records[k] \in 1..Len(rows)

\* Two rows went into one group.
C1_Witness ==
  /\ pc = "grouped"
  /\ Len(rows) = 2
  /\ Len(Lines) = 1
  /\ Len(Lines[1].records) = 2

\* The first row whose group key is that of group j
FirstOf(j) == CHOOSE i \in 1..Len(rows) :
                /\ lid_of(rows[i]) = Lines[j].line_id
                /\ \A h \in 1..(i - 1) : lid_of(rows[h]) # Lines[j].line_id

Header == values[1]

DataRow(i) == values[i + 1]

\* The last position of field k in the header
LastPos(k) == CHOOSE q \in 1..Len(Header) :
                Header[q] = k /\ \A h \in (q + 1)..Len(Header) : Header[h] # k

\* The cell of row at position q, the empty string beyond the row's length
CellOrEmpty(row, q) == IF q <= Len(row) THEN row[q] ELSE Str(<<>>)

\* C3 as stated: every record has the header's field names as its keys, and for
\* a row shorter than the header every header field maps to the cell at its own
\* position, or to the empty string beyond the row's length.
C3_AsStated ==
  (pc = "fetched" /\ values # <<>>) =>
    \A i \in 1..Len(rows) :
      /\ DOMAIN rows[i] = Range(Header)
      /\ Len(DataRow(i)) < Len(Header) =>
           \A q \in 1..Len(Header) : rows[i][Header[q]] = CellOrEmpty(DataRow(i), q)

\* C3, amended: every record has the header's field names as its keys, and for
\* a row shorter than the header every field maps to the cell at the last
\* position the field has in the header, or to the empty string when that
\* position is beyond the row's length.
C3_KeysAndPadding ==
  (pc = "fetched" /\ values # <<>>) =>
    /\ Len(rows) = Len(values) - 1
    /\ \A i \in 1..Len(rows) :
         /\ DOMAIN rows[i] = Range(Header)
         /\ Len(DataRow(i)) < Len(Header) =>
              \A k \in Range(Header) : rows[i][k] = CellOrEmpty(DataRow(i), LastPos(k))

\* A row shorter than the header, not empty, was made a record.
C3_Witness ==
  /\ pc = "fetched"
  /\ values # <<>>
  /\ \E i \in 1..Len(rows) :
       /\ Len(DataRow(i)) >= 1
       /\ Len(DataRow(i)) < Len(Header)
       /\ rows[i][Header[1]] = DataRow(i)[1]
       /\ rows[i][Header[Len(Header)]] = Str(<<>>)

\* The group that holds row i
GroupOf(i) == CHOOSE j \in 1..Len(Lines) : \E k \in 1..Len(Lines[j].records) :
                Lines[j].records[k] = i

HasLineId(r) == "line_id" \in DOMAIN r

\* C4 as stated: a row is grouped under "UNKNOWN" only when it has no line_id
\* key, and a row whose line_id is the empty string is grouped under "", never
\* under "UNKNOWN".
C4_AsStated ==
  pc = "grouped" =>
    \A i \in 1..Len(rows) :
      /\ Lines[GroupOf(i)].line_id = UNKNOWN => ~HasLineId(rows[i])
      /\ (HasLineId(rows[i]) /\ rows[i]["line_id"] = Str(<<>>)) =>
           (Lines[GroupOf(i)].line_id = Str(<<>>) /\ Lines[GroupOf(i)].line_id # UNKNOWN)

\* C4, amended: a row is grouped under "UNKNOWN" exactly when it has no line_id
\* key or its line_id is the text "UNKNOWN" itself; a row whose line_id is the
\* empty string is grouped under "", in a group that holds no row without a
\* line_id key.
C4_UnknownOnlyWhenAbsent ==
  pc = "grouped" =>
    \A i \in 1..Len(rows) :
      /\ Lines[GroupOf(i)].line_id = UNKNOWN <=>
           (~HasLineId(rows[i]) \/ rows[i]["line_id"] = UNKNOWN)
      /\ (HasLineId(rows[i]) /\ rows[i]["line_id"] = Str(<<>>)) =>
           /\ Lines[GroupOf(i)].line_id = Str(<<>>)
           /\ \A h \in 1..Len(rows) : GroupOf(h) = GroupOf(i) => HasLineId(rows[h])

\* A row with an empty line_id and a row without line_id were grouped, the first
\* under "" and the second under "UNKNOWN".
C4_Witness ==
  /\ pc = "grouped"
  /\ \E i, h \in 1..Len(rows) :
       /\ HasLineId(rows[i]) /\ rows[i]["line_id"] = Str(<<>>)
       /\ ~HasLineId(rows[h])
       /\ Lines[GroupOf(i)].line_id = Str(<<>>)
       /\ Lines[GroupOf(h)].line_id = UNKNOWN

\* Texts of the sheets that float() rejects
JunkTexts == {<<>>, <<"x">>}

\* A source field of r that is absent or holds a text float() rejects
Unusable(r, k) == k \notin DOMAIN r \/ (r[k].kind = "str" /\ r[k].s \in JunkTexts)

DerivedOf(r) == [k \in DerivedKeys |-> r[k]]

\* C5: no call ends in an exception, every row gets its four derived numbers,
\* and a source field that is absent or unparseable gives the derived values
\* that the text "0" and the text "x" in its place give.
C5_CoercionTotal ==
  /\ pc # "error"
  /\ pc = "enriched" =>
       \A i \in 1..Len(rows) :
         /\ \A k \in DerivedKeys : k \in DOMAIN rows[i] /\ rows[i][k].kind = "num"
         /\ \A k \in SourceKeys : Unusable(prev[i], k) =>
              /\ DerivedOf(rows[i]) = DerivedOf(compute_row(SetItem(prev[i], k, Str(<<"0">>))).row)
              /\ DerivedOf(rows[i]) = DerivedOf(compute_row(SetItem(prev[i], k, Str(<<"x">>))).row)

\* A row with one source field absent and another one unparseable was enriched.
C5_Witness ==
  /\ pc = "enriched"
  /\ \E i \in 1..Len(rows) : \E k, h \in SourceKeys :
       /\ k \notin DOMAIN prev[i]
       /\ h \in DOMAIN prev[i] /\ prev[i][h].s = <<"x">>

\* The coerced source value of a row, in thousandths
Coerced(r, k) == to_float(Get(r, k, None)).val

\* x is a whole number of cents (x in thousandths)
WholeCents(x) == x % Pow10(GradeDigits - MoneyDigits) = 0

\* c cents is a nearest whole number of cents to p / 10^6
NearestCents(c, p) == 2 * Abs(c * 10000 - p) <= 10000

\* Texts of the sheets for a volume that is zero, negative or unparseable
NoVolumeTexts == {<<"0">>, <<"-", "2">>, <<"x">>, <<>>}

\* C6: avg_grade_g_per_m3 is gold_grams / material_moved_m3 to the nearest
\* thousandth when the volume is > 0 and 0 when the volume is zero, negative,
\* unparseable or absent; revenue_usd is gold_grams * gold_price_usd_per_g,
\* total_cost_usd the sum of the three costs and profit_usd the unrounded
\* revenue minus the unrounded total cost, each to the nearest cent; volume 100,
\* grams 5, price 60 and costs 50/30/20 give 0.05, 300, 100 and 200.
C6_DerivedValues ==
  pc = "enriched" =>
    \A i \in 1..Len(rows) :
      LET r == prev[i]
          m3 == Coerced(r, "material_moved_m3")
          g == Coerced(r, "gold_grams")
          price == Coerced(r, "gold_price_usd_per_g")
          cost == Coerced(r, "diesel_cost_usd") + Coerced(r, "labour_cost_usd")
                    + Coerced(r, "other_cost_usd")
          avg == rows[i]["avg_grade_g_per_m3"].n
          revenue == rows[i]["revenue_usd"].n
          total == rows[i]["total_cost_usd"].n
          profit == rows[i]["profit_usd"].n
      IN /\ IF m3 > 0 THEN 2 * Abs(avg * m3 - g * Unit) <= m3 ELSE avg = 0
         /\ ("material_moved_m3" \notin DOMAIN r
               \/ r["material_moved_m3"].s \in NoVolumeTexts) => avg = 0
         /\ WholeCents(revenue) /\ NearestCents(revenue \div 10, g * price)
         /\ WholeCents(total) /\ 2 * Abs(total - cost) <= 10
         /\ WholeCents(profit) /\ NearestCents(profit \div 10, g * price - cost * Unit)
         /\ (/\ Get(r, "material_moved_m3", None) = Str(Txt_100)
             /\ Get(r, "gold_grams", None) = Str(<<"5">>)
             /\ Get(r, "gold_price_usd_per_g", None) = Str(<<"6", "0">>)
             /\ Get(r, "diesel_cost_usd", None) = Str(<<"5", "0">>)
             /\ Get(r, "labour_cost_usd", None) = Str(<<"3", "0">>)
             /\ Get(r, "other_cost_usd", None) = Str(<<"2", "0">>))
            => (avg = 50 /\ revenue = 300000 /\ total = 100000 /\ profit = 200000)

\* The reference row was enriched to 0.05, 300, 100 and 200, beside a row of
\* volume 0 with grade 0.
C6_Witness ==
  /\ pc = "enriched"
  /\ \E i, h \in 1..Len(rows) :
       /\ Get(prev[i], "material_moved_m3", None) = Str(Txt_100)
       /\ rows[i]["avg_grade_g_per_m3"] = Num(50)
       /\ rows[i]["revenue_usd"] = Num(300000)
       /\ rows[i]["total_cost_usd"] = Num(100000)
       /\ rows[i]["profit_usd"] = Num(200000)
       /\ Get(prev[h], "material_moved_m3", None) = Str(<<"0">>)
       /\ rows[h]["avg_grade_g_per_m3"] = Num(0)
       /\ rows[h]["revenue_usd"] = Num(300000)

\* C7: a second call of compute_numeric_fields on its own result returns the
\* rows unchanged, the derived values and every other field.
C7_Idempotent ==
  (pc = "enriched" /\ applied >= 2) => rows = prev

\* compute_numeric_fields ran twice on rows with derived values other than 0.
C7_Witness ==
  /\ pc = "enriched"
  /\ applied = 2
  /\ rows = prev
  /\ \E i \in 1..Len(rows) : \A k \in DerivedKeys : rows[i][k] # Num(0)

\* C8: compute_numeric_fields keeps the number and the order of the rows, adds
\* the four derived keys and changes the value of no other key (a source cell
\* stays the text it was); build_dashboard_json changes no row, and the groups
\* hold the rows themselves.
C8_OnlyDerivedKeysChange ==
  /\ pc = "computed" =>
       /\ Len(rows) = Len(prev)
       /\ \A i \in 1..Len(rows) :
            /\ DOMAIN rows[i] = (DOMAIN prev[i]) \cup DerivedKeys
            /\ \A k \in (DOMAIN prev[i]) \ DerivedKeys : rows[i][k] = prev[i][k]
  /\ pc = "built" =>
       /\ rows = prev
       /\ \A j \in 1..Len(Lines) : \A k \in 1..Len(Lines[j].records) :
            Lines[j].records[k] \in 1..Len(rows)

\* Rows with a source cell were enriched and grouped, the cell still its text.
C8_Witness ==
  /\ pc = "built"
  /\ Len(rows) = 2
  /\ \E i \in 1..Len(rows) :
       /\ "gold_grams" \in DOMAIN rows[i]
       /\ rows[i]["gold_grams"] = Str(<<"5">>)
       /\ rows[i]["revenue_usd"] = Num(300000)

\* C9: the record of a row longer than the header has only the header's field
\* names as keys, each mapped to a cell among the first len(header) cells of
\* the row, at a position where the header has that key; the cells beyond the
\* header's length are under no key, and no call ends in an exception.
C9_ExtraCellsDropped ==
  /\ pc # "error"
  /\ (pc = "fetched" /\ values # <<>>) =>
       \A i \in 1..Len(rows) : Len(DataRow(i)) > Len(Header) =>
         /\ DOMAIN rows[i] = Range(Header)
         /\ \A k \in DOMAIN rows[i] :
              \E q \in 1..Len(Header) : Header[q] = k /\ rows[i][k] = DataRow(i)[q]
         /\ \A q \in (Len(Header) + 1)..Len(DataRow(i)) :
              \A k \in DOMAIN rows[i] : rows[i][k] # DataRow(i)[q]

\* A row with a cell beyond a header of two fields or more was made a record.
C9_Witness ==
  /\ pc = "fetched"
  /\ values # <<>>
  /\ \E i \in 1..Len(rows) :
       /\ Len(Header) >= 2
       /\ Len(DataRow(i)) > Len(Header)
       /\ DataRow(i)[Len(DataRow(i))] = ExtraCell
       /\ rows[i][Header[1]] = DataRow(i)[1]

\* C10: after main's three calls no two groups have the same line_id, every
\* row of a group has the group's line_id, or no line_id key in the group
\* "UNKNOWN", and every row of every group has the four derived keys.
C10_GroupKeysConsistent ==
  pc = "built" =>
    /\ \A j, h \in 1..Len(Lines) : Lines[j].line_id = Lines[h].line_id => j = h
    /\ \A j \in 1..Len(Lines) : \A k \in 1..Len(Lines[j].records) :
         LET r == rows[Lines[j].records[k]]
         IN /\ \/ HasLineId(r) /\ r["line_id"] = Lines[j].line_id
               \/ ~HasLineId(r) /\ Lines[j].line_id = UNKNOWN
            /\ DerivedKeys \subseteq DOMAIN r
    /\ SumRecords(Lines) = Len(rows)

\* Two rows with different line_id values were fetched, enriched and grouped.
C10_Witness ==
  /\ pc = "built"
  /\ Len(Lines) = 2
  /\ HasLineId(rows[1])
  /\ rows[1]["line_id"] # rows[2]["line_id"]

====
